---- MODULE Spec2Model ----
(***************************************************************************)
(* The MCP weather server of samples/19-mcp-weather-server/server.py: the  *)
(* catalog, the fake-data generators, MCPServer.handle_request and the     *)
(* stdin/stdout loop of main().                                            *)
(*                                                                         *)
(* JSON and Python values are tagged records [t |-> <type>, ...]; a key a  *)
(* JSON object does not carry is the value Absent, and dict.get(k, d) is   *)
(* the operator Get.  A Python call that may raise returns                 *)
(* [ok |-> TRUE, val |-> v] or [ok |-> FALSE, exc |-> <type>, msg |-> m].  *)
(* A calendar date is its ordinal, the number of days since 1 January of   *)
(* BaseYear (a bound of the model: no date before it is used).             *)
(***************************************************************************)
EXTENDS Integers, Sequences, FiniteSets

VARIABLES
    tools,      \* MCPServer.tools: the tool definitions, in dict (insertion) order
    prompts,    \* MCPServer.prompts: the prompt definitions, in dict order
    hashSeed,   \* the string-hash randomisation key the interpreter drew for this process
    today,      \* datetime.now().date(), as an ordinal
    pc,         \* main(): "read" while the loop runs, "done" after end of stream
    consumed,   \* the lines sys.stdin.readline() has returned so far
    readOn,     \* readOn[k]: the date on which consumed[k] was read and served
    stdout,     \* the lines printed to standard output
    origin,     \* origin[i]: the index in consumed of the line that caused stdout[i]
    stderr,     \* what logger.error has logged
    process,    \* the number of the running process (1, then 2 after a restart, ...)
    samples     \* the generator calls made so far, over all processes, with their results

vars == <<tools, prompts, hashSeed, today, pc, consumed, readOn, stdout, origin, stderr, process, samples>>

serverVars == <<tools, prompts>>

loopVars == <<pc, consumed, readOn, stdout, origin, stderr>>

-----------------------------------------------------------------------------
(* Bounds of the model.                                                    *)

\* the loop reads at most this many lines before the stream ends (a run of the loop
\* is taken to be short: the date does not change while it runs)
MaxLines == 2

\* the request ids used are 1 and MaxId
MaxId == 2

\* the processes draw their hash key from 0..MaxHashSeed (0: randomisation off)
MaxHashSeed == 1

\* integer `days` arguments range over -2..MaxDaysArg
MaxDaysArg == 9

\* at most this many generator calls are recorded
MaxCalls == 2

\* at most this many processes are started one after the other
MaxProcesses == 2

-----------------------------------------------------------------------------
(* JSON / Python values.                                                   *)

Absent == [t |-> "absent"]

None == [t |-> "null"]

JInt(n) == [t |-> "int", v |-> n]

JStr(s) == [t |-> "str", v |-> s]

\* a JSON array: a Python list, which is neither a dict nor a str and is unhashable
JList == [t |-> "list"]

\* the JSON literal true
JTrue == [t |-> "bool", v |-> TRUE]

IsObj(x) == x.t = "obj"

Ok(v) == [ok |-> TRUE, val |-> v]

Raise(e, m) == [ok |-> FALSE, exc |-> e, msg |-> m]

\* d.get(k, default) on a dict d: the default only when the key is missing
Get(d, k, default) == IF d[k] = Absent THEN default ELSE d[k]

\* x.get(...) on a value that is no dict raises AttributeError
NoGet(x) == Raise("AttributeError", <<x.t, "object has no attribute 'get'">>)

-----------------------------------------------------------------------------
(* Calendar: datetime.date, timedelta, timetuple().tm_yday, .month,        *)
(* strftime("%Y-%m-%d").                                                   *)

BaseYear == 2027

IsLeap(y) == (y % 4 = 0) /\ ((y % 100 # 0) \/ (y % 400 = 0))

DaysInYear(y) == IF IsLeap(y) THEN 366 ELSE 365

DaysInMonth(y, m) ==
    IF m = 2 THEN (IF IsLeap(y) THEN 29 ELSE 28)
    ELSE IF m \in {4, 6, 9, 11} THEN 30 ELSE 31

RECURSIVE YearFrom(_, _)
YearFrom(y, d) == IF d < DaysInYear(y) THEN y ELSE YearFrom(y + 1, d - DaysInYear(y))

RECURSIVE YdayFrom(_, _)
YdayFrom(y, d) == IF d < DaysInYear(y) THEN d + 1 ELSE YdayFrom(y + 1, d - DaysInYear(y))

YearOf(date) == YearFrom(BaseYear, date)

\* date.timetuple().tm_yday, 1..366
tm_yday(date) == YdayFrom(BaseYear, date)

RECURSIVE MonthFrom(_, _, _)
MonthFrom(y, m, yd) ==
    IF yd <= DaysInMonth(y, m) THEN m ELSE MonthFrom(y, m + 1, yd - DaysInMonth(y, m))

RECURSIVE DayFrom(_, _, _)
DayFrom(y, m, yd) ==
    IF yd <= DaysInMonth(y, m) THEN yd ELSE DayFrom(y, m + 1, yd - DaysInMonth(y, m))

MonthOf(date) == MonthFrom(YearOf(date), 1, tm_yday(date))

\* date.strftime("%Y-%m-%d")
strftime(date) ==
    <<YearOf(date), MonthOf(date), DayFrom(YearOf(date), 1, tm_yday(date))>>

\* date(y, m, d) as an ordinal
RECURSIVE DaysBeforeMonth(_, _)
DaysBeforeMonth(y, m) == IF m = 1 THEN 0 ELSE DaysBeforeMonth(y, m - 1) + DaysInMonth(y, m - 1)

RECURSIVE DaysBeforeYear(_)
DaysBeforeYear(y) == IF y = BaseYear THEN 0 ELSE DaysBeforeYear(y - 1) + DaysInYear(y - 1)

DateOf(y, m, d) == DaysBeforeYear(y) + DaysBeforeMonth(y, m) + d - 1

-----------------------------------------------------------------------------
(* hash() and random.Random.                                               *)

HashMod == 4096

\* the characters of a str folded to a number (position-weighted sum of code points)
StrCode(s) ==
    CASE s = "" -> 0
      [] s = "Seattle, WA" -> 1031
      [] s = "Miami, FL" -> 769
      [] OTHER -> 523

\* hash(str): keyed by the per-process randomisation key; hash("") is 0 under every key
StrHash(s, key) ==
    IF s = "" THEN 0 ELSE (StrCode(s) * (2 * key + 1) + 977 * key) % HashMod

\* hash(x): str by StrHash, int by value, None a fixed number, list unhashable
PyHash(x, key) ==
    CASE x.t = "str" -> Ok(StrHash(x.v, key))
      [] x.t = "int" -> Ok(x.v)
      [] x.t = "null" -> Ok(HashMod - 1)
      [] OTHER -> Raise("TypeError", <<"unhashable type", x.t>>)

RngMod == 65536

Abs(n) == IF n < 0 THEN -n ELSE n

\* random.Random(seed): an int seed is used by absolute value; the generator state
RngSeed(seed) == (Abs(seed) * 2053 + 13849) % RngMod

\* one step of the generator
RngStep(s) == (s * 25173 + 13849) % RngMod

\* the state after n draws
RECURSIVE RngAfter(_, _)
RngAfter(s, n) == IF n = 0 THEN s ELSE RngAfter(RngStep(s), n - 1)

\* the n-th rng.randint(a, b) of a generator seeded with `seed` (n = 1, 2, ...)
randint(seed, n, a, b) == a + ((RngAfter(RngSeed(seed), n) \div 16) % (b - a + 1))

-----------------------------------------------------------------------------
(* The generators.                                                         *)

conditions ==
    <<"sunny", "cloudy", "partly cloudy", "rainy", "foggy", "snowy", "thunderstorms", "clear">>

Max(a, b) == IF a >= b THEN a ELSE b

Min(a, b) == IF a <= b THEN a ELSE b

\* get_current_weather(location), called on date `now` in a process with hash key `key`
get_current_weather(location, now, key) ==
    LET h == PyHash(location, key) IN
    IF ~h.ok THEN h
    ELSE LET seed == h.val + tm_yday(now) IN
         Ok([location |-> location,
             temperature |-> randint(seed, 2, 15, 95),
             condition |-> conditions[randint(seed, 1, 0, Len(conditions) - 1) + 1],
             humidity |-> randint(seed, 3, 30, 90),
             wind_speed |-> randint(seed, 4, 5, 25),
             unit |-> "Fahrenheit"])

\* mutant of ClampDays: only the upper limit is applied
ClampDays_UpperOnly(days) ==
    IF days.t = "int" THEN Ok(Min(7, days.v))
    ELSE Raise("TypeError", <<"'<' not supported between", days.t, "and int">>)

\* days = max(1, min(7, days)): an int is clamped, a str cannot be compared with 7
ClampDays(days) ==
    IF days.t = "int" THEN Ok(Max(1, Min(7, days.v)))
    ELSE Raise("TypeError", <<"'<' not supported between", days.t, "and int">>)

\* mutant of ForecastDay: the winter adjustment has no floor
ForecastDay_NoFloor(seed, target_date) ==
    LET month == MonthOf(target_date)
        drawn == randint(seed, 2, 15, 95)
        winter == month \in {12, 1, 2}
        summer == month \in {6, 7, 8}
        temperature == IF winter THEN drawn - 25
                       ELSE IF summer THEN Min(drawn + 15, 100)
                       ELSE drawn
        base_condition == conditions[randint(seed, 1, 0, Len(conditions) - 1) + 1]
        condition == IF winter /\ randint(seed, 5, 0, 2) = 0 THEN "snowy" ELSE base_condition
        temp_variation == randint(seed, IF winter THEN 6 ELSE 5, 5, 15)
    IN [date |-> strftime(target_date),
        temperature_high |-> temperature + temp_variation \div 2,
        temperature_low |-> temperature - temp_variation \div 2,
        condition |-> condition,
        humidity |-> randint(seed, 3, 30, 90),
        wind_speed |-> randint(seed, 4, 5, 25)]

\* one iteration of the forecast loop: the entry for target_date, seeded with `seed`
ForecastDay(seed, target_date) ==
    LET month == MonthOf(target_date)
        drawn == randint(seed, 2, 15, 95)
        winter == month \in {12, 1, 2}
        summer == month \in {6, 7, 8}
        temperature == IF winter THEN Max(drawn - 25, 10)
                       ELSE IF summer THEN Min(drawn + 15, 100)
                       ELSE drawn
        base_condition == conditions[randint(seed, 1, 0, Len(conditions) - 1) + 1]
        condition == IF winter /\ randint(seed, 5, 0, 2) = 0 THEN "snowy" ELSE base_condition
        \* the winter branch makes one more draw before the spread
        temp_variation == randint(seed, IF winter THEN 6 ELSE 5, 5, 15)
    IN [date |-> strftime(target_date),
        temperature_high |-> temperature + temp_variation \div 2,
        temperature_low |-> temperature - temp_variation \div 2,
        condition |-> condition,
        humidity |-> randint(seed, 3, 30, 90),
        wind_speed |-> randint(seed, 4, 5, 25)]

\* mutant of get_weather_forecast: the loop runs over range(1, days + 1)
get_weather_forecast_FromTomorrow(location, days, now, key) ==
    LET n == ClampDays(days)
        h == PyHash(location, key)
    IN IF ~n.ok THEN n
       ELSE IF ~h.ok THEN h
       ELSE Ok([location |-> location,
                forecast |-> [i \in 1..n.val |->
                                 ForecastDay(h.val + tm_yday(now + i), now + i)],
                unit |-> "Fahrenheit"])

\* get_weather_forecast(location, days), called on date `now` under hash key `key`
get_weather_forecast(location, days, now, key) ==
    LET n == ClampDays(days)
        h == PyHash(location, key)
    IN IF ~n.ok THEN n
       ELSE IF ~h.ok THEN h
       ELSE Ok([location |-> location,
                forecast |-> [i \in 1..n.val |->
                                 ForecastDay(h.val + tm_yday(now + i - 1), now + i - 1)],
                unit |-> "Fahrenheit"])

Lower(s) == IF s = "UTC" THEN "utc" ELSE s

\* get_current_datetime(timezone_str): str.lower() exists on a str only
get_current_datetime(timezone_str, now) ==
    IF timezone_str.t # "str"
    THEN Raise("AttributeError", <<timezone_str.t, "object has no attribute 'lower'">>)
    ELSE LET tz_name == IF Lower(timezone_str.v) = "utc" THEN "UTC" ELSE "Local" IN
         Ok([datetime |-> <<"isoformat", strftime(now), tz_name>>,
             formatted |-> strftime(now),
             timezone |-> tz_name,
             timestamp |-> now])

-----------------------------------------------------------------------------
(* The catalog built by MCPServer.__init__.                                *)

Arg(n, d) == [name |-> n, description |-> d, required |-> TRUE]

PromptCatalog ==
    <<[name |-> "time_in_location",
       description |-> "Get the current time in a specific city or timezone. Use this when a user asks what time it is in a particular location.",
       arguments |-> <<Arg("location", "The city or region the user is asking about, e.g. 'Tokyo', 'London', 'New York'")>>],
      [name |-> "daily_briefing",
       description |-> "Get a morning briefing with current time, weather, and forecast for a location.",
       arguments |-> <<Arg("location", "The city to get the briefing for, e.g. 'Seattle, WA'")>>],
      [name |-> "weather_comparison",
       description |-> "Compare current weather between two cities.",
       arguments |-> <<Arg("location1", "First city, e.g. 'Seattle, WA'"),
                       Arg("location2", "Second city, e.g. 'Miami, FL'")>>]>>

ToolCatalog ==
    <<[name |-> "get_current_weather",
       description |-> "Get the current weather for a specific location",
       inputSchema |-> [type |-> "object",
                        properties |-> <<[name |-> "location", type |-> "string"]>>,
                        required |-> <<"location">>]],
      [name |-> "get_weather_forecast",
       description |-> "Get the weather forecast for a specific location",
       inputSchema |-> [type |-> "object",
                        properties |-> <<[name |-> "location", type |-> "string"],
                                         [name |-> "days", type |-> "integer",
                                          minimum |-> 1, maximum |-> 7]>>,
                        required |-> <<"location">>]],
      [name |-> "get_current_datetime",
       description |-> "Get the current date and time",
       inputSchema |-> [type |-> "object",
                        properties |-> <<[name |-> "timezone", type |-> "string"]>>,
                        required |-> <<>>]]>>

\* the keys of a catalog dict
Names(catalog) == {catalog[i].name : i \in DOMAIN catalog}

\* catalog[name], for a key of the dict
Entry(catalog, name) == catalog[CHOOSE i \in DOMAIN catalog : catalog[i].name = name]

-----------------------------------------------------------------------------
(* MCPServer._get_prompt_messages.                                         *)

UserMessage(text) == <<[role |-> "user", content |-> [type |-> "text", text |-> text]]>>

\* arguments.get(k, placeholder), for a dict `arguments`
ArgOr(arguments, k, placeholder) == Get(arguments, k, JStr(placeholder))

\* mutant of _get_prompt_messages: arguments[k] in place of arguments.get(k, placeholder)
_get_prompt_messages_Strict(prompt_name, arguments) ==
    IF ~IsObj(arguments) THEN NoGet(arguments)
    ELSE CASE prompt_name \in {"time_in_location", "daily_briefing"} /\ arguments.location = Absent ->
                Raise("KeyError", <<"location">>)
           [] prompt_name = "weather_comparison" /\ arguments.location1 = Absent ->
                Raise("KeyError", <<"location1">>)
           [] prompt_name = "weather_comparison" /\ arguments.location2 = Absent ->
                Raise("KeyError", <<"location2">>)
           [] prompt_name = "time_in_location" ->
                Ok(UserMessage(<<"What time is it right now in ", arguments.location,
                                 "? ... IMPORTANT INSTRUCTIONS FOR ANSWERING ...">>))
           [] prompt_name = "daily_briefing" ->
                Ok(UserMessage(<<"Give me a morning briefing for ", arguments.location,
                                 ". Please get the current date/time, current weather, and a 3-day forecast, then present it as a concise morning briefing.">>))
           [] prompt_name = "weather_comparison" ->
                Ok(UserMessage(<<"Compare the current weather in ", arguments.location1,
                                 " and ", arguments.location2,
                                 ". Get the weather for both locations and present a side-by-side comparison including temperature, conditions, humidity, and wind speed.">>))
           [] OTHER -> Raise("ValueError", <<"No message template for prompt", prompt_name>>)

_get_prompt_messages(prompt_name, arguments) ==
    IF ~IsObj(arguments) THEN NoGet(arguments)
    ELSE CASE prompt_name = "time_in_location" ->
                Ok(UserMessage(<<"What time is it right now in ",
                                 ArgOr(arguments, "location", "the requested location"),
                                 "? ... IMPORTANT INSTRUCTIONS FOR ANSWERING ...">>))
           [] prompt_name = "daily_briefing" ->
                Ok(UserMessage(<<"Give me a morning briefing for ",
                                 ArgOr(arguments, "location", "the requested location"),
                                 ". Please get the current date/time, current weather, and a 3-day forecast, then present it as a concise morning briefing.">>))
           [] prompt_name = "weather_comparison" ->
                Ok(UserMessage(<<"Compare the current weather in ",
                                 ArgOr(arguments, "location1", "city 1"),
                                 " and ",
                                 ArgOr(arguments, "location2", "city 2"),
                                 ". Get the weather for both locations and present a side-by-side comparison including temperature, conditions, humidity, and wind speed.">>))
           [] OTHER -> Raise("ValueError", <<"No message template for prompt", prompt_name>>)

-----------------------------------------------------------------------------
(* MCPServer.handle_request.                                               *)

\* a dict of tool or prompt arguments: the keys the tools and prompts read
Args(location, days, timezone, location1, location2) ==
    [t |-> "obj", location |-> location, days |-> days, timezone |-> timezone,
     location1 |-> location1, location2 |-> location2]

NoArgs == Args(Absent, Absent, Absent, Absent, Absent)

\* a params dict
Params(name, arguments) == [t |-> "obj", name |-> name, arguments |-> arguments]

NoParams == Params(Absent, Absent)

\* a request dict
Request(method, id, params) == [t |-> "obj", method |-> method, id |-> id, params |-> params]

\* mutant of Error: the error Response also carries a null result
Error_WithNullResult(request_id, code, message) ==
    [jsonrpc |-> "2.0", id |-> request_id, result |-> None,
     error |-> [code |-> code, message |-> message]]

Result(request_id, result) == [jsonrpc |-> "2.0", id |-> request_id, result |-> result]

Error(request_id, code, message) ==
    [jsonrpc |-> "2.0", id |-> request_id, error |-> [code |-> code, message |-> message]]

\* json.dumps(result, indent=2): the text that encodes the value
dumps(value) == [json |-> value]

\* the tool dispatch of tools/call: the tool's result, or the exception raised
CallTool(params, now, key) ==
    IF ~IsObj(params) THEN NoGet(params)
    ELSE LET tool_name == Get(params, "name", None)
             arguments == Get(params, "arguments", NoArgs)
         IN CASE tool_name = JStr("get_current_weather") ->
                   IF ~IsObj(arguments) THEN NoGet(arguments)
                   ELSE get_current_weather(Get(arguments, "location", JStr("")), now, key)
              [] tool_name = JStr("get_weather_forecast") ->
                   IF ~IsObj(arguments) THEN NoGet(arguments)
                   ELSE get_weather_forecast(Get(arguments, "location", JStr("")),
                                             Get(arguments, "days", JInt(3)), now, key)
              [] tool_name = JStr("get_current_datetime") ->
                   IF ~IsObj(arguments) THEN NoGet(arguments)
                   ELSE get_current_datetime(Get(arguments, "timezone", JStr("local")), now)
              [] OTHER -> Raise("ValueError", <<"Unknown tool", tool_name>>)

\* the prompts/get branch: description and messages, or the exception raised
GetPrompt(params, promptDict) ==
    IF ~IsObj(params) THEN NoGet(params)
    ELSE LET prompt_name == Get(params, "name", None)
             arguments == Get(params, "arguments", NoArgs)
         IN IF prompt_name.t \in {"list", "obj"}
            THEN Raise("TypeError", <<"unhashable type", prompt_name.t>>)
            ELSE IF prompt_name.t # "str" \/ prompt_name.v \notin Names(promptDict)
            THEN Raise("ValueError", <<"Unknown prompt", prompt_name>>)
            ELSE LET messages == _get_prompt_messages(prompt_name.v, arguments) IN
                 IF ~messages.ok THEN messages
                 ELSE Ok([description |-> Entry(promptDict, prompt_name.v).description,
                          messages |-> messages.val])

\* mutant of RequestId: the id is looked up in the wrong dict and never found
RequestId_Lost(request) == None

\* request_id = request.get("id"): None when the request carries no id
RequestId(request) == Get(request, "id", None)

\* the body of the try block: the value returned, or the exception raised
Dispatch(request, toolDict, promptDict, now, key) ==
    LET method == Get(request, "method", None)
        params == Get(request, "params", NoParams)
        request_id == RequestId(request)
    IN CASE method = JStr("tools/list") ->
              Ok(Result(request_id, [tools |-> toolDict]))
         [] method = JStr("tools/call") ->
              LET result == CallTool(params, now, key) IN
              IF ~result.ok THEN result
              ELSE Ok(Result(request_id,
                             [content |-> <<[type |-> "text", text |-> dumps(result.val)]>>]))
         [] method = JStr("prompts/list") ->
              Ok(Result(request_id, [prompts |-> promptDict]))
         [] method = JStr("prompts/get") ->
              LET got == GetPrompt(params, promptDict) IN
              IF ~got.ok THEN got ELSE Ok(Result(request_id, got.val))
         [] method = JStr("initialize") ->
              Ok(Result(request_id,
                        [protocolVersion |-> "2024-11-05",
                         capabilities |-> [tools |-> <<>>, prompts |-> <<>>],
                         serverInfo |-> [name |-> "weather-server", version |-> "1.0.0"]]))
         [] method = JStr("notifications/initialized") -> Ok(None)
         [] OTHER -> Raise("ValueError", <<"Unknown method", method>>)

\* the code of the error Response built by handle_request's except clause
DispatchErrorCode == -1

\* mutant of handle_request: an unknown tool, prompt or method is dropped without a reply
handle_request_DropsUnknown(request, toolDict, promptDict, now, key) ==
    LET r == Dispatch(request, toolDict, promptDict, now, key) IN
    IF r.ok THEN r.val
    ELSE IF r.exc = "ValueError" THEN None
    ELSE Error(RequestId(request), DispatchErrorCode, r.msg)

\* mutant of handle_request: notifications/initialized is answered when it carries an id
handle_request_AcksInitialized(request, toolDict, promptDict, now, key) ==
    LET r == Dispatch(request, toolDict, promptDict, now, key) IN
    IF ~r.ok THEN Error(RequestId(request), DispatchErrorCode, r.msg)
    ELSE IF r.val = None /\ request.id # Absent THEN Result(RequestId(request), None)
    ELSE r.val

\* mutant of handle_request: only the unknown-tool/prompt/method errors keep code -1,
\* any other exception is reported with the internal-error code
handle_request_InternalCode(request, toolDict, promptDict, now, key) ==
    LET r == Dispatch(request, toolDict, promptDict, now, key) IN
    IF r.ok THEN r.val
    ELSE IF r.exc = "ValueError" THEN Error(RequestId(request), DispatchErrorCode, r.msg)
    ELSE Error(RequestId(request), -32603, r.msg)

\* mutant of handle_request: tools/list returns the tools sorted by name
handle_request_SortedTools(request, toolDict, promptDict, now, key) ==
    LET r == Dispatch(request, toolDict, promptDict, now, key) IN
    IF ~r.ok THEN Error(RequestId(request), DispatchErrorCode, r.msg)
    ELSE IF request.method = JStr("tools/list")
    THEN Result(RequestId(request), [tools |-> <<toolDict[3], toolDict[1], toolDict[2]>>])
    ELSE r.val

\* handle_request(request) on a dict: the try block, every Exception turned into an
\* error Response with the request's id
handle_request(request, toolDict, promptDict, now, key) ==
    LET r == Dispatch(request, toolDict, promptDict, now, key) IN
    IF r.ok THEN r.val
    ELSE Error(RequestId(request), DispatchErrorCode, r.msg)

-----------------------------------------------------------------------------
(* main(): the loop over the lines of standard input.                      *)

\* a line that is empty after strip()
Blank == [t |-> "blank"]

\* a line json.loads rejects with JSONDecodeError
BadJson == [t |-> "badjson"]

\* json.loads(line): the decoded value, or JSONDecodeError
loads(line) ==
    IF line = BadJson THEN Raise("JSONDecodeError", "Expecting value") ELSE Ok(line)

\* mutant of Awaited: the try block turns only ValueError into a Response, any
\* other exception leaves handle_request
Awaited_OnlyValueErrorCaught(request, toolDict, promptDict, now, key) ==
    IF ~IsObj(request) THEN NoGet(request)
    ELSE LET r == Dispatch(request, toolDict, promptDict, now, key) IN
         IF r.ok \/ r.exc = "ValueError"
         THEN Ok(handle_request(request, toolDict, promptDict, now, key))
         ELSE r

\* await server.handle_request(request): request.get("method") precedes the try block,
\* so a decoded value that is no dict raises AttributeError out of handle_request
Awaited(request, toolDict, promptDict, now, key) ==
    IF ~IsObj(request) THEN NoGet(request)
    ELSE Ok(handle_request(request, toolDict, promptDict, now, key))

\* the code of the error Response built by main()'s `except Exception`
InternalErrorCode == -32603

\* mutant of Fallback: the id of a value that is no dict is taken to be null
Fallback_NullId(line, e) ==
    LET again == loads(line) IN
    IF ~again.ok THEN <<>>
    ELSE IF ~IsObj(again.val) THEN <<Error(None, -32603, <<"Internal error", e.msg>>)>>
    ELSE <<Error(RequestId(again.val), -32603, <<"Internal error", e.msg>>)>>

\* main()'s `except Exception as e` clause: what it prints for `line`, having caught e.
\* The clause decodes the line again and reads request.get("id"); when either raises,
\* the bare `except: pass` leaves nothing printed.
Fallback(line, e) ==
    LET again == loads(line) IN
    IF ~again.ok \/ ~IsObj(again.val) THEN <<>>
    ELSE <<Error(RequestId(again.val), InternalErrorCode, <<"Internal error", e.msg>>)>>

\* mutant of LoopBody: a line that is not JSON is answered with a parse error
LoopBody_ParseError(line, toolDict, promptDict, now, key) ==
    LET request == loads(line) IN
    IF ~request.ok
    THEN [out |-> <<Error(None, -32700, "Parse error")>>, log |-> <<"Invalid JSON">>]
    ELSE LET response == Awaited(request.val, toolDict, promptDict, now, key) IN
         IF ~response.ok
         THEN [out |-> Fallback(line, response), log |-> <<"Error handling request">>]
         ELSE IF response.val # None THEN [out |-> <<response.val>>, log |-> <<>>]
         ELSE [out |-> <<>>, log |-> <<>>]

\* mutant of LoopBody: a Response is printed twice
LoopBody_RepliesTwice(line, toolDict, promptDict, now, key) ==
    LET request == loads(line) IN
    IF ~request.ok THEN [out |-> <<>>, log |-> <<"Invalid JSON">>]
    ELSE LET response == Awaited(request.val, toolDict, promptDict, now, key) IN
         IF ~response.ok
         THEN [out |-> Fallback(line, response), log |-> <<"Error handling request">>]
         ELSE IF response.val # None
         THEN [out |-> <<response.val, response.val>>, log |-> <<>>]
         ELSE [out |-> <<>>, log |-> <<>>]

\* one pass of the loop body over a non-blank line: the lines it prints
\* (json.dumps(response) is taken as the Response it encodes) and what it logs
\* with logger.error
LoopBody(line, toolDict, promptDict, now, key) ==
    LET request == loads(line) IN
    IF ~request.ok THEN [out |-> <<>>, log |-> <<"Invalid JSON">>]
    ELSE LET response == Awaited(request.val, toolDict, promptDict, now, key) IN
         IF ~response.ok
         THEN [out |-> Fallback(line, response), log |-> <<"Error handling request">>]
         ELSE IF response.val # None THEN [out |-> <<response.val>>, log |-> <<>>]
         ELSE [out |-> <<>>, log |-> <<>>]

-----------------------------------------------------------------------------
(* The inputs.                                                             *)

Seattle == JStr("Seattle, WA")

Miami == JStr("Miami, FL")

Methods ==
    {JStr("tools/list"), JStr("tools/call"), JStr("prompts/list"), JStr("prompts/get"),
     JStr("initialize"), JStr("notifications/initialized"), JStr("resources/list")}

WeatherArgs(location) == Args(location, Absent, Absent, Absent, Absent)

ForecastArgs(location, days) == Args(location, days, Absent, Absent, Absent)

DatetimeArgs(timezone) == Args(Absent, Absent, timezone, Absent, Absent)

PromptArgs(location, location1, location2) == Args(location, Absent, Absent, location1, location2)

\* the params the loop's tools/call requests carry
ToolParams ==
    {JList, NoParams,
     Params(JStr("bogus"), Absent),
     Params(JStr("get_current_weather"), WeatherArgs(Seattle)),
     Params(JStr("get_current_weather"), WeatherArgs(JList)),
     Params(JStr("get_current_weather"), JList),
     Params(JStr("get_weather_forecast"), ForecastArgs(Miami, JInt(MaxDaysArg))),
     Params(JStr("get_weather_forecast"), ForecastArgs(Miami, JStr("3"))),
     Params(JStr("get_current_datetime"), DatetimeArgs(JStr("UTC"))),
     Params(JStr("get_current_datetime"), DatetimeArgs(JInt(0)))}

\* the params the loop's prompts/get requests carry
PromptParams ==
    {Params(JStr("bogus"), Absent),
     Params(JStr("time_in_location"), PromptArgs(Seattle, Absent, Absent)),
     Params(JStr("daily_briefing"), Absent),
     Params(JStr("daily_briefing"), JList),
     Params(JStr("weather_comparison"), PromptArgs(Absent, Seattle, Absent))}

\* the JSON objects the loop is fed: every method (and none) without params, with no
\* id and with id 1; a request with a null id; tools/call and prompts/get with
\* params, under id MaxId, and an unknown tool without id
Requests ==
    {Request(m, id, Absent) : m \in (Methods \cup {Absent}), id \in {Absent, JInt(1)}}
    \cup {Request(JStr("tools/list"), None, Absent)}
    \cup {Request(JStr("tools/call"), JInt(MaxId), p) : p \in ToolParams}
    \cup {Request(JStr("tools/call"), Absent, Params(JStr("bogus"), Absent))}
    \cup {Request(JStr("prompts/get"), JInt(MaxId), p) : p \in PromptParams}

\* decodable lines that are no JSON object
NonObjects == {JList, None, JInt(7), JStr("ping"), JTrue}

\* the non-blank lines the loop is fed
Lines == {BadJson} \cup NonObjects \cup Requests

\* the date the loop is started on: a 7-day forecast made then crosses the year's end
LoopDate == DateOf(BaseYear, 12, 28)

\* the dates the generators' clients start on
StartDates == {DateOf(BaseYear, 7, 30), DateOf(BaseYear, 12, 28)}

\* the dates the clock shows: midnight may pass once
Dates == StartDates \cup {d + 1 : d \in StartDates}

HashSeeds == 0..MaxHashSeed

\* the locations the generators are called with directly
Locations == {Seattle, JStr("")}

\* the integer `days` arguments get_weather_forecast is called with directly
DaysArgs == {JInt(d) : d \in -2..MaxDaysArg}

-----------------------------------------------------------------------------
(* The loop as a state machine.                                            *)

Init ==
    /\ tools = ToolCatalog
    /\ prompts = PromptCatalog
    /\ hashSeed \in HashSeeds
    /\ today = LoopDate
    /\ pc = "read"
    /\ consumed = <<>>
    /\ readOn = <<>>
    /\ stdout = <<>>
    /\ origin = <<>>
    /\ stderr = <<>>
    /\ process = 1
    /\ samples = {}

\* readline() returns "": end of stream, the loop breaks
ReadEOF ==
    /\ pc = "read"
    /\ pc' = "done"
    /\ UNCHANGED <<serverVars, hashSeed, today, consumed, readOn, stdout, origin, stderr, process, samples>>

\* a line that strips to nothing: continue
ReadBlank ==
    /\ pc = "read"
    /\ Len(consumed) < MaxLines
    /\ consumed' = Append(consumed, Blank)
    /\ readOn' = Append(readOn, today)
    /\ UNCHANGED <<serverVars, hashSeed, today, pc, stdout, origin, stderr, process, samples>>

\* mutant of ReadLine: a line that does not decode ends the loop
ReadLine_StopsOnBadJson ==
    /\ pc = "read"
    /\ Len(consumed) < MaxLines
    /\ \E line \in Lines :
         LET body == LoopBody(line, tools, prompts, today, hashSeed) IN
         /\ consumed' = Append(consumed, line)
         /\ readOn' = Append(readOn, today)
         /\ stdout' = stdout \o body.out
         /\ origin' = origin \o [i \in 1..Len(body.out) |-> Len(consumed) + 1]
         /\ stderr' = stderr \o body.log
         /\ pc' = IF line = BadJson THEN "done" ELSE pc
    /\ UNCHANGED <<serverVars, hashSeed, today, process, samples>>

\* a non-blank line: one pass of the loop body (decode, dispatch, print or log)
ReadLine ==
    /\ pc = "read"
    /\ Len(consumed) < MaxLines
    /\ \E line \in Lines :
         LET body == LoopBody(line, tools, prompts, today, hashSeed) IN
         /\ consumed' = Append(consumed, line)
         /\ readOn' = Append(readOn, today)
         /\ stdout' = stdout \o body.out
         /\ origin' = origin \o [i \in 1..Len(body.out) |-> Len(consumed) + 1]
         /\ stderr' = stderr \o body.log
    /\ UNCHANGED <<serverVars, hashSeed, today, pc, process, samples>>

Next == ReadEOF \/ ReadBlank \/ ReadLine

Spec == Init /\ [][Next]_vars

\* the loop is never suspended for ever: readline() on a finite stream returns, and
\* every pass of the loop body returns
SpecLive == Spec /\ WF_vars(Next)

-----------------------------------------------------------------------------
(* The generators called directly, over several processes: a client that   *)
(* records every call with the date and the process it was made in.        *)

InitGen ==
    /\ tools = ToolCatalog
    /\ prompts = PromptCatalog
    /\ hashSeed \in HashSeeds
    /\ today \in StartDates
    /\ pc = "read"
    /\ consumed = <<>>
    /\ readOn = <<>>
    /\ stdout = <<>>
    /\ origin = <<>>
    /\ stderr = <<>>
    /\ process = 1
    /\ samples = {}

Sample(fn, location, days, result) ==
    [fn |-> fn, location |-> location, days |-> days, date |-> today,
     process |-> process, result |-> result]

\* midnight passes: datetime.now().date() is the next day
Midnight ==
    /\ today + 1 \in Dates
    /\ today' = today + 1
    /\ UNCHANGED <<serverVars, hashSeed, loopVars, process, samples>>

\* server.get_current_weather(location)
CallCurrentWeather ==
    /\ Cardinality(samples) < MaxCalls
    /\ \E location \in Locations :
         samples' = samples \cup
             {Sample("get_current_weather", location, Absent,
                     get_current_weather(location, today, hashSeed))}
    /\ UNCHANGED <<serverVars, hashSeed, today, loopVars, process>>

\* server.get_weather_forecast(location, days) with days 1, 3 or 7
CallShortForecast ==
    /\ Cardinality(samples) < MaxCalls
    /\ \E location \in Locations, days \in {JInt(1), JInt(3), JInt(7)} :
         samples' = samples \cup
             {Sample("get_weather_forecast", location, days,
                     get_weather_forecast(location, days, today, hashSeed))}
    /\ UNCHANGED <<serverVars, hashSeed, today, loopVars, process>>

\* the process ends and a new one is started: the interpreter draws a new hash key
\* and MCPServer() builds the catalog again
Restart ==
    /\ process < MaxProcesses
    /\ process' = process + 1
    /\ hashSeed' \in HashSeeds
    /\ tools' = ToolCatalog
    /\ prompts' = PromptCatalog
    /\ UNCHANGED <<today, loopVars, samples>>

NextGen == CallCurrentWeather \/ CallShortForecast \/ Restart \/ Midnight

SpecGen == InitGen /\ [][NextGen]_vars

\* server.get_weather_forecast(location, days), any integer days, once per client
CallForecast ==
    /\ samples = {}
    /\ \E location \in Locations \cup {Miami}, days \in DaysArgs :
         samples' = {Sample("get_weather_forecast", location, days,
                            get_weather_forecast(location, days, today, hashSeed))}
    /\ UNCHANGED <<serverVars, hashSeed, today, loopVars, process>>

NextForecast == CallForecast \/ Restart \/ Midnight

SpecForecast == InitGen /\ [][NextForecast]_vars

\* the names a prompts/get request carries: the three of the catalog, one that is
\* not in it, and none
PromptNames == {JStr("time_in_location"), JStr("daily_briefing"), JStr("weather_comparison")}

\* the arguments of a prompts/get request: every subset of location, location1,
\* location2, and no arguments dict at all
PromptArgSets ==
    {PromptArgs(l, l1, l2) : l \in {Absent, Seattle}, l1 \in {Absent, Seattle}, l2 \in {Absent, Miami}}
        \cup {Absent}

PromptGets ==
    {Request(JStr("prompts/get"), JInt(1), Params(name, arguments)) :
        name \in PromptNames \cup {JStr("bogus"), Absent}, arguments \in PromptArgSets}

\* await server.handle_request(request) for a prompts/get request, the request and
\* the Response recorded
CallGetPrompt ==
    /\ Cardinality(samples) < MaxCalls
    /\ \E request \in PromptGets :
         samples' = samples \cup
             {[fn |-> "handle_request", request |-> request, date |-> today, process |-> process,
               result |-> handle_request(request, tools, prompts, today, hashSeed)]}
    /\ UNCHANGED <<serverVars, hashSeed, today, loopVars, process>>

NextPrompts == CallGetPrompt

SpecPrompts == InitGen /\ [][NextPrompts]_vars

-----------------------------------------------------------------------------
(* Reading the history: which output a line caused.                        *)

RECURSIVE OutputsFrom(_, _)
OutputsFrom(k, i) ==
    IF i > Len(stdout) THEN <<>>
    ELSE (IF origin[i] = k THEN <<stdout[i]>> ELSE <<>>) \o OutputsFrom(k, i + 1)

\* the lines of output caused by consumed[k], in the order written
OutputsOf(k) == OutputsFrom(k, 1)

\* the lines of output one pass of the loop over consumed[k] writes, on the date it was read
Expected(k) ==
    IF consumed[k] = Blank THEN <<>>
    ELSE LoopBody(consumed[k], ToolCatalog, PromptCatalog, readOn[k], hashSeed).out

\* the id a request line carries, null standing for a missing one
IdOf(line) == IF line.id = Absent THEN None ELSE line.id

IsErrorResponse(r) == "error" \in DOMAIN r

IsResultResponse(r) == "result" \in DOMAIN r

ToolNames == {JStr("get_current_weather"), JStr("get_weather_forecast"), JStr("get_current_datetime")}

\* a tools/call request whose params carry no name, or a name that is no tool
UnknownToolCall(line) ==
    /\ IsObj(line)
    /\ line.method = JStr("tools/call")
    /\ line.params = Absent \/ (IsObj(line.params) /\ line.params.name \notin ToolNames)

\* the request consumed[k] makes the try block raise something other than the
\* ValueError of an unknown method, tool or prompt
UnexpectedFailure(k) ==
    /\ IsObj(consumed[k])
    /\ LET r == Dispatch(consumed[k], ToolCatalog, PromptCatalog, readOn[k], hashSeed) IN
       ~r.ok /\ r.exc # "ValueError"

\* the output of the lines from k on, the lines in `skip` left out
RECURSIVE ReplayFrom(_, _)
ReplayFrom(k, skip) ==
    IF k > Len(consumed) THEN <<>>
    ELSE (IF consumed[k] \in skip THEN <<>> ELSE Expected(k)) \o ReplayFrom(k + 1, skip)

Clamp(x, lo, hi) == IF x < lo THEN lo ELSE IF x > hi THEN hi ELSE x

NamesInOrder(catalog) == [i \in DOMAIN catalog |-> catalog[i].name]

-----------------------------------------------------------------------------
(* The claims.                                                             *)

\* C1: a request object with no id field, whatever its method, causes no line of
\* output (stated as claimed; the loop answers every id-less request but
\* notifications/initialized).
C1_NoReplyWithoutId ==
    \A k \in DOMAIN consumed :
        (IsObj(consumed[k]) /\ consumed[k].id = Absent) => OutputsOf(k) = <<>>

\* C2: a tools/call whose params.name is missing or names no tool is answered with
\* one error Response, code -1, carrying the request's id, and every line read after
\* it is served as usual.
C2_UnknownToolIsErrorMinusOne ==
    \A k \in DOMAIN consumed :
        UnknownToolCall(consumed[k]) =>
            /\ Len(OutputsOf(k)) = 1
            /\ IsErrorResponse(OutputsOf(k)[1])
            /\ ~IsResultResponse(OutputsOf(k)[1])
            /\ OutputsOf(k)[1].error.code = -1
            /\ OutputsOf(k)[1].id = IdOf(consumed[k])
            /\ \A j \in (k + 1)..Len(consumed) : OutputsOf(j) = Expected(j)

\* C2 witness: an unknown tool was called with an id, and the request read after it
\* was answered.
C2_Witness ==
    \E k \in DOMAIN consumed :
        /\ UnknownToolCall(consumed[k])
        /\ consumed[k].id = JInt(MaxId)
        /\ k < Len(consumed)
        /\ IsObj(consumed[k + 1])
        /\ Len(OutputsOf(k + 1)) = 1

\* C3 as claimed: a failure during dispatch that is not an unknown method, tool or
\* prompt is answered with an error Response of code -32603.
C3_UnexpectedFailureIsInternalError ==
    \A k \in DOMAIN consumed :
        UnexpectedFailure(k) =>
            /\ Len(OutputsOf(k)) = 1
            /\ IsErrorResponse(OutputsOf(k)[1])
            /\ OutputsOf(k)[1].error.code = InternalErrorCode

\* C3 as amended: such a failure is answered with one error Response of code -1 that
\* carries the request's id, and no Response with code -32603 is written for any line.
C3_UnexpectedFailureIsMinusOne ==
    /\ \A k \in DOMAIN consumed :
          UnexpectedFailure(k) =>
              /\ Len(OutputsOf(k)) = 1
              /\ IsErrorResponse(OutputsOf(k)[1])
              /\ ~IsResultResponse(OutputsOf(k)[1])
              /\ OutputsOf(k)[1].error.code = -1
              /\ OutputsOf(k)[1].id = IdOf(consumed[k])
    /\ \A i \in DOMAIN stdout :
          IsErrorResponse(stdout[i]) => stdout[i].error.code # InternalErrorCode

\* C3 witness: a tools/call whose arguments are a list, not an object, was answered
\* with an error.
C3_Witness ==
    \E k \in DOMAIN consumed :
        /\ UnexpectedFailure(k)
        /\ consumed[k].method = JStr("tools/call")
        /\ IsObj(consumed[k].params)
        /\ consumed[k].params.arguments = JList
        /\ Len(OutputsOf(k)) = 1
        /\ IsErrorResponse(OutputsOf(k)[1])

\* C4: for every integer days and every location get_weather_forecast returns (does
\* not raise) a forecast of exactly clamp(days, 1, 7) entries.
C4_ForecastLengthIsClampedDays ==
    \A s \in samples :
        (s.fn = "get_weather_forecast" /\ s.days.t = "int") =>
            /\ s.result.ok
            /\ Len(s.result.val.forecast) = Clamp(s.days.v, 1, 7)

\* C4 witness: a forecast was asked for a negative number of days and has one entry.
C4_Witness ==
    \E s \in samples :
        /\ s.fn = "get_weather_forecast"
        /\ s.days.t = "int" /\ s.days.v < 0
        /\ s.result.ok
        /\ Len(s.result.val.forecast) = 1

\* C5: two get_current_weather calls for the same location on the same date return
\* the same values, in one process and in two (stated as claimed; hash(location)
\* differs between processes).
C5_SameSampleInEveryProcess ==
    \A s1, s2 \in samples :
        (/\ s1.fn = "get_current_weather" /\ s2.fn = "get_current_weather"
         /\ s1.location = s2.location /\ s1.date = s2.date) =>
            s1.result = s2.result

\* C6: a line that is not JSON causes no output, and the output is what the lines
\* without the undecodable ones produce: every line after it is served as usual.
C6_BadJsonSkipped ==
    /\ \A k \in DOMAIN consumed : consumed[k] = BadJson => OutputsOf(k) = <<>>
    /\ stdout = ReplayFrom(1, {BadJson})

\* C6 witness: an undecodable line was read, and the request after it was answered.
C6_Witness ==
    \E k \in DOMAIN consumed :
        /\ consumed[k] = BadJson
        /\ k < Len(consumed)
        /\ IsObj(consumed[k + 1])
        /\ Len(OutputsOf(k + 1)) = 1
        /\ IsResultResponse(OutputsOf(k + 1)[1])

\* C7: whatever was served before, tools/list is answered with the three tools in
\* declaration order and prompts/list with the three prompts in declaration order,
\* and the catalog is what __init__ built.
C7_ListsAreFixed ==
    /\ tools = ToolCatalog
    /\ prompts = PromptCatalog
    /\ \A k \in DOMAIN consumed :
          (IsObj(consumed[k]) /\ consumed[k].method = JStr("tools/list")) =>
              /\ Len(OutputsOf(k)) = 1
              /\ IsResultResponse(OutputsOf(k)[1])
              /\ NamesInOrder(OutputsOf(k)[1].result.tools) =
                     <<"get_current_weather", "get_weather_forecast", "get_current_datetime">>
              /\ OutputsOf(k)[1].result.tools = ToolCatalog
    /\ \A k \in DOMAIN consumed :
          (IsObj(consumed[k]) /\ consumed[k].method = JStr("prompts/list")) =>
              /\ Len(OutputsOf(k)) = 1
              /\ IsResultResponse(OutputsOf(k)[1])
              /\ NamesInOrder(OutputsOf(k)[1].result.prompts) =
                     <<"time_in_location", "daily_briefing", "weather_comparison">>
              /\ OutputsOf(k)[1].result.prompts = PromptCatalog

\* C7 witness: tools/list was answered after a tool call had been answered.
C7_Witness ==
    /\ Len(consumed) = 2
    /\ IsObj(consumed[1]) /\ consumed[1].method = JStr("tools/call")
    /\ Len(OutputsOf(1)) = 1 /\ IsResultResponse(OutputsOf(1)[1])
    /\ IsObj(consumed[2]) /\ consumed[2].method = JStr("tools/list")
    /\ Len(OutputsOf(2)) = 1

\* C8: a notifications/initialized request, with or without an id, makes
\* handle_request return None and the loop write nothing.
C8_InitializedNotificationSilent ==
    \A k \in DOMAIN consumed :
        (IsObj(consumed[k]) /\ consumed[k].method = JStr("notifications/initialized")) =>
            /\ handle_request(consumed[k], tools, prompts, readOn[k], hashSeed) = None
            /\ OutputsOf(k) = <<>>

\* C8 witness: a notifications/initialized request that carries an id has been served.
C8_Witness ==
    \E k \in DOMAIN consumed :
        /\ IsObj(consumed[k])
        /\ consumed[k].method = JStr("notifications/initialized")
        /\ consumed[k].id = JInt(1)
        /\ OutputsOf(k) = <<>>

\* C9: every Response written carries exactly one of `result` and `error`.
C9_ExactlyOneOfResultError ==
    \A i \in DOMAIN stdout : IsResultResponse(stdout[i]) # IsErrorResponse(stdout[i])

\* C9 witness: a result Response and an error Response have both been written.
C9_Witness ==
    \E i, j \in DOMAIN stdout : IsResultResponse(stdout[i]) /\ IsErrorResponse(stdout[j])

\* C10: every Response written, success or error, carries the id of the request line
\* that caused it (null for a request without id), never another request's.
C10_ResponseIdIsRequestId ==
    \A i \in DOMAIN stdout :
        /\ origin[i] \in DOMAIN consumed
        /\ IsObj(consumed[origin[i]])
        /\ stdout[i].id = IdOf(consumed[origin[i]])

\* C10 witness: two requests with different ids were answered, one with a result and
\* one with an error.
C10_Witness ==
    \E i, j \in DOMAIN stdout :
        /\ stdout[i].id = JInt(1) /\ IsResultResponse(stdout[i])
        /\ stdout[j].id = JInt(MaxId) /\ IsErrorResponse(stdout[j])
        /\ consumed[origin[i]].id # consumed[origin[j]].id

\* the replies are in the order of the lines that caused them, at most one per line
RepliesInOrder ==
    /\ Len(origin) = Len(stdout)
    /\ \A i \in DOMAIN origin :
          /\ origin[i] \in DOMAIN consumed
          /\ i > 1 => origin[i - 1] < origin[i]

\* a step reads at most one line, and writes the reply to that line, if any, in the
\* same step: nothing is written later for an earlier line, nothing already written
\* changes
OneLineAtATime ==
    /\ consumed' # consumed =>
          /\ Len(consumed') = Len(consumed) + 1
          /\ SubSeq(consumed', 1, Len(consumed)) = consumed
    /\ Len(stdout') >= Len(stdout)
    /\ Len(stdout') <= Len(stdout) + 1
    /\ SubSeq(stdout', 1, Len(stdout)) = stdout
    /\ SubSeq(origin', 1, Len(origin)) = origin
    /\ Len(stdout') = Len(stdout) + 1 =>
          /\ consumed' # consumed
          /\ origin'[Len(stdout')] = Len(consumed')

\* C11: lines are served in input order, one at a time: the reply to a line is
\* written in the step that read it, before the next line is read, a line has at
\* most one reply, and the replies are in the order of their lines.
C11_InOrderOneAtATime == [](RepliesInOrder) /\ [][OneLineAtATime]_vars

\* C11 witness: two lines were read and both were answered, in order.
C11_Witness ==
    /\ Len(consumed) = 2
    /\ Len(stdout) = 2
    /\ origin = <<1, 2>>
    /\ consumed[1] # consumed[2]

\* the loop leaves "read" only in a step that reads no line (readline() returned the
\* empty string), and never comes back
StopsOnlyAtEndOfInput ==
    /\ (pc = "read" /\ pc' # "read") =>
          /\ pc' = "done"
          /\ consumed' = consumed
          /\ stdout' = stdout
    /\ pc = "done" => UNCHANGED vars

\* a step that reads a line, whatever the line, leaves the loop reading
EveryLineKeepsTheLoop == consumed' # consumed => pc' = "read"

\* C12: the loop ends only at the end of the input stream; on a finite input it
\* ends eventually; no line (blank, undecodable, or one whose dispatch fails) ends
\* it.
C12_EndsExactlyAtEndOfInput ==
    /\ <>(pc = "done")
    /\ [][StopsOnlyAtEndOfInput]_vars
    /\ [][EveryLineKeepsTheLoop]_vars

\* C12 witness: the loop has ended after reading an undecodable line and a request
\* whose dispatch failed.
C12_Witness ==
    /\ pc = "done"
    /\ Len(consumed) = 2
    /\ consumed[1] = BadJson
    /\ UnexpectedFailure(2)

\* C12 witness of the blank line: the loop has ended after reading a blank line and
\* a value that is no object.
C12_WitnessBlank ==
    /\ pc = "done"
    /\ Len(consumed) = 2
    /\ consumed[1] = Blank
    /\ consumed[2] \in NonObjects

\* a Response: jsonrpc, id, and exactly one of result and error
IsResponse(r) ==
    /\ DOMAIN r \in {{"jsonrpc", "id", "result"}, {"jsonrpc", "id", "error"}}
    /\ r.jsonrpc = "2.0"

\* C13: for every request that is a JSON object handle_request raises nothing and
\* returns null or a Response (and the loop prints just that); when the dispatch
\* fails, for an unknown method, tool or prompt or for any other reason, what it
\* returns is an error Response with an integer code and a message.
C13_HandleRequestNeverRaises ==
    \A k \in DOMAIN consumed :
        IsObj(consumed[k]) =>
            LET a == Awaited(consumed[k], ToolCatalog, PromptCatalog, readOn[k], hashSeed)
                d == Dispatch(consumed[k], ToolCatalog, PromptCatalog, readOn[k], hashSeed)
            IN  /\ a.ok
                /\ a.val = None \/ IsResponse(a.val)
                /\ OutputsOf(k) = IF a.val = None THEN <<>> ELSE <<a.val>>
                /\ ~d.ok =>
                      /\ a.val # None
                      /\ IsErrorResponse(a.val)
                      /\ a.val.error.code \in Int
                      /\ DOMAIN a.val.error = {"code", "message"}
                      /\ a.val.error.message = d.msg

\* C13 witness: an unknown method and a request whose dispatch failed otherwise were
\* both answered with an error Response, and nothing was logged as escaping
\* handle_request.
C13_Witness ==
    /\ Len(consumed) = 2
    /\ IsObj(consumed[1])
    /\ consumed[1].method = JStr("resources/list")
    /\ UnexpectedFailure(2)
    /\ Len(stdout) = 2
    /\ IsErrorResponse(stdout[1])
    /\ IsErrorResponse(stdout[2])
    /\ stderr = <<>>

\* the entries of the forecasts returned, each a ForecastDay
ForecastEntries ==
    UNION {{s.result.val.forecast[i] : i \in DOMAIN s.result.val.forecast} :
             s \in {x \in samples : x.fn = "get_weather_forecast" /\ x.result.ok}}

\* the month of a formatted date is December, January or February
IsWinterEntry(entry) == entry.date[2] \in {12, 1, 2}

\* C14: every forecast entry dated in December, January or February has
\* temperature_high >= temperature_low, the two being base + spread div 2 and
\* base - spread div 2 for a base max(drawn - 25, 10) >= 10, drawn in 15..95, and
\* a spread in 5..15.
C14_WinterFloorAndSymmetricSpread ==
    \A entry \in ForecastEntries :
        IsWinterEntry(entry) =>
            /\ entry.temperature_high >= entry.temperature_low
            /\ \E drawn \in 15..95, spread \in 5..15 :
                  LET base == Max(drawn - 25, 10) IN
                  /\ base >= 10
                  /\ entry.temperature_high = base + spread \div 2
                  /\ entry.temperature_low = base - spread \div 2

\* C14 witness: a winter entry whose base temperature is the floor, 10, and another
\* above the floor, in one forecast that runs from December into January.
C14_Witness ==
    \E s \in samples :
        /\ s.fn = "get_weather_forecast" /\ s.result.ok
        /\ \E i, j \in DOMAIN s.result.val.forecast :
              LET a == s.result.val.forecast[i]
                  b == s.result.val.forecast[j]
              IN  /\ a.date[2] = 12 /\ b.date[2] = 1
                  /\ a.temperature_high + a.temperature_low = 20
                  /\ a.temperature_high > a.temperature_low
                  /\ b.temperature_high + b.temperature_low > 20

\* the arguments a prompt's template reads: the place in the text, the key, and the
\* placeholder that stands for a missing one
Slots(prompt_name) ==
    CASE prompt_name = "time_in_location" ->
            {[at |-> 2, key |-> "location", placeholder |-> "the requested location"]}
      [] prompt_name = "daily_briefing" ->
            {[at |-> 2, key |-> "location", placeholder |-> "the requested location"]}
      [] prompt_name = "weather_comparison" ->
            {[at |-> 2, key |-> "location1", placeholder |-> "city 1"],
             [at |-> 4, key |-> "location2", placeholder |-> "city 2"]}

\* C15: prompts/get with a name that is not in the catalog (or with none) is answered
\* with an error Response; for each catalog prompt and every subset of its arguments,
\* none included, it is answered with a result of exactly one message, of role user,
\* in whose text every argument given stands as given and every missing one is
\* replaced by its placeholder.
C15_PromptsGetSubstitutesPlaceholders ==
    \A s \in samples :
        s.fn = "handle_request" =>
            LET name == s.request.params.name
                given == IF s.request.params.arguments = Absent THEN NoArgs
                         ELSE s.request.params.arguments
                r == s.result
            IN  IF name \notin PromptNames
                THEN /\ IsErrorResponse(r)
                     /\ ~IsResultResponse(r)
                     /\ r.id = s.request.id
                ELSE /\ IsResultResponse(r)
                     /\ ~IsErrorResponse(r)
                     /\ r.id = s.request.id
                     /\ Len(r.result.messages) = 1
                     /\ r.result.messages[1].role = "user"
                     /\ \A slot \in Slots(name.v) :
                           r.result.messages[1].content.text[slot.at] =
                               IF given[slot.key] = Absent THEN JStr(slot.placeholder)
                               ELSE given[slot.key]

\* C15 witness: weather_comparison was asked with location1 only and answered with
\* one user message that names "city 2" for the other, and a prompt that is not in
\* the catalog was answered with an error.
C15_Witness ==
    \E s1, s2 \in samples :
        /\ s1.fn = "handle_request" /\ s2.fn = "handle_request"
        /\ s1.request.params.name = JStr("weather_comparison")
        /\ s1.request.params.arguments = PromptArgs(Absent, Seattle, Absent)
        /\ IsResultResponse(s1.result)
        /\ Len(s1.result.result.messages) = 1
        /\ s1.result.result.messages[1].content.text[2] = Seattle
        /\ s1.result.result.messages[1].content.text[4] = JStr("city 2")
        /\ s2.request.params.name = JStr("bogus")
        /\ IsErrorResponse(s2.result)

\* a line that decodes to an array, a number, a string, a boolean or null
IsNonObject(line) == line.t \in {"list", "int", "str", "bool", "null"}

\* how many entries of a sequence are equal to x
RECURSIVE Count(_, _)
Count(seq, x) ==
    IF seq = <<>> THEN 0
    ELSE (IF seq[1] = x THEN 1 ELSE 0) + Count(SubSeq(seq, 2, Len(seq)), x)

\* how many of the lines read decode to a value that is no object
RECURSIVE NonObjectsRead(_)
NonObjectsRead(k) ==
    IF k = 0 THEN 0
    ELSE (IF IsNonObject(consumed[k]) THEN 1 ELSE 0) + NonObjectsRead(k - 1)

\* C16: a line that decodes to a JSON value that is no object causes no line of
\* output, neither a result nor a -32603 error: the failure is logged by the loop's
\* `except Exception` (it left handle_request), whose own attempt to answer fails;
\* every request object read, before it or after it, is answered all the same (all
\* but notifications/initialized, which has no answer).
C16_NonObjectLineIsSilent ==
    /\ \A k \in DOMAIN consumed : IsNonObject(consumed[k]) => OutputsOf(k) = <<>>
    /\ \A i \in DOMAIN stdout :
          IsErrorResponse(stdout[i]) => stdout[i].error.code # InternalErrorCode
    /\ Count(stderr, "Error handling request") = NonObjectsRead(Len(consumed))
    /\ \A k \in DOMAIN consumed :
          (IsObj(consumed[k]) /\ consumed[k].method # JStr("notifications/initialized")) =>
              Len(OutputsOf(k)) = 1

\* C16 witness: a number was read and logged as a failure, nothing was written for
\* it, and the tools/list request read after it was answered.
C16_Witness ==
    /\ Len(consumed) = 2
    /\ consumed[1] = JInt(7)
    /\ stderr = <<"Error handling request">>
    /\ IsObj(consumed[2])
    /\ consumed[2].method = JStr("tools/list")
    /\ Len(stdout) = 1
    /\ origin = <<2>>
    /\ IsResultResponse(stdout[1])

\* C16 witness of the other kinds: an array, a string, true and null were each read
\* by some loop and left no output.
C16_WitnessKinds ==
    /\ Len(consumed) = 2
    /\ consumed[1] \in {JList, JStr("ping")}
    /\ consumed[2] \in {JTrue, None}
    /\ stdout = <<>>
    /\ Len(stderr) = 2

\* the day a formatted date names, as an ordinal
DayNamed(date) == DateOf(date[1], date[2], date[3])

\* C17: in one process and on one date, the first entry of a forecast for a
\* location has the humidity and the wind_speed get_current_weather returns for that
\* location; the entries of a forecast are dated today, today + 1, ..., each the day
\* after the one before.
C17_ForecastStartsAtCurrentWeather ==
    /\ \A s1, s2 \in samples :
          (/\ s1.fn = "get_current_weather" /\ s2.fn = "get_weather_forecast"
           /\ s1.process = s2.process /\ s1.date = s2.date
           /\ s1.location = s2.location) =>
              /\ s1.result.ok /\ s2.result.ok
              /\ s2.result.val.forecast[1].humidity = s1.result.val.humidity
              /\ s2.result.val.forecast[1].wind_speed = s1.result.val.wind_speed
    /\ \A s \in samples :
          s.fn = "get_weather_forecast" =>
              /\ s.result.ok
              /\ \A i \in DOMAIN s.result.val.forecast :
                    /\ DayNamed(s.result.val.forecast[i].date) = s.date + i - 1
                    /\ i > 1 => DayNamed(s.result.val.forecast[i].date) =
                                  DayNamed(s.result.val.forecast[i - 1].date) + 1

\* C17 witness: on one date of December one process returned the current weather
\* and a 7-day forecast for a location, the forecast running into January; its
\* first entry has the current humidity and wind speed, and another temperature
\* range than the current temperature's (the forecast adjusts for the season).
C17_Witness ==
    \E s1, s2 \in samples :
        /\ s1.fn = "get_current_weather" /\ s2.fn = "get_weather_forecast"
        /\ s1.process = s2.process /\ s1.date = s2.date
        /\ s1.location = s2.location
        /\ s1.result.ok /\ s2.result.ok
        /\ Len(s2.result.val.forecast) = 7
        /\ s2.result.val.forecast[1].date[2] = 12
        /\ s2.result.val.forecast[7].date = <<BaseYear + 1, 1, 3>>
        /\ s2.result.val.forecast[1].humidity = s1.result.val.humidity
        /\ s2.result.val.forecast[1].temperature_high < s1.result.val.temperature

====
